---- MODULE Spec2Model ----
(***************************************************************************)
(* FinCalc: the external financial engine boundary                         *)
(* (app/operations/financial.py) and the request schemas                   *)
(* (app/schemas/calculations.py).                                          *)
(*                                                                         *)
(* Python values are records [k, n, s]: k is the kind ("num", "str",       *)
(* "none"), n the number of a "num", s the text of a "str".  Numbers are   *)
(* small integers standing for Python ints/floats.  Text that the code     *)
(* inspects character by character (the type name, the engine's stdout)    *)
(* is a sequence of one-character strings.                                 *)
(***************************************************************************)
EXTENDS Integers, Sequences, FiniteSets, TLC

VARIABLES
    envPath,      \* value of the environment variable FSHARP_EXEC_PATH ("" = unset)
    FSHARP_EXEC,  \* module global of financial.py, bound when the module is imported
    files,        \* paths at which a file exists right now
    dotnet,       \* TRUE iff shutil.which("dotnet") finds the runner right now
    last,         \* the financial call in progress and what came of it
    prevPrefix,   \* the command prefix the previous call used (<<>> = none yet)
    proc,         \* the engine process of the call in progress: exit status and stdout
    validated,    \* the most recent schema validation and what came of it
    stored,       \* the calculation record kept for the client
    evaluated     \* the most recent call of the arithmetic evaluator

vars ==
    <<envPath, FSHARP_EXEC, files, dotnet, last, prevPrefix, proc, validated, stored,
      evaluated>>

(***************************************************************************)
(* Bounds                                                                  *)
(***************************************************************************)
MaxNum == 1      \* numeric arguments range over 1..MaxNum
MaxFlows == 2    \* cash-flow sequences have at most MaxFlows elements
MaxCase == 2     \* type names are upper-cased at any subset of their first MaxCase letters
MaxElem == 2     \* the numbers in inputs range over -1..MaxElem
MaxInputs == 3   \* inputs lists have at most MaxInputs elements
MaxOut == 3      \* the engine's texts on stdout have at most MaxOut characters

(***************************************************************************)
(* Python values                                                           *)
(***************************************************************************)
Num(n) == [k |-> "num", n |-> n, s |-> ""]
StrV(s) == [k |-> "str", n |-> 0, s |-> s]
None == [k |-> "none", n |-> 0, s |-> ""]
Omitted == [k |-> "omitted", n |-> 0, s |-> ""]   \* a parameter the caller left out

\* str(v): the text Python makes of a value
str(v) ==
    CASE v.k = "num" -> StrV(ToString(v.n))
      [] v.k = "str" -> v
      [] OTHER -> StrV("None")

\* ",".join(map(str, flows)) over a sequence of values
RECURSIVE JoinComma(_)
JoinComma(items) ==
    IF Len(items) = 0 THEN ""
    ELSE IF Len(items) = 1 THEN str(items[1]).s
    ELSE str(items[1]).s \o "," \o JoinComma(Tail(items))

\* argument values a caller may pass: numbers and a non-numeric string
Values == {Num(n) : n \in 1..MaxNum} \cup {StrV("abc")}
Kinds == {StrV("call"), StrV("put"), None}

SeqsUpTo(S, n) == UNION {[1..m -> S] : m \in 0..n}

\* the flows argument: an iterable of values, or a value that cannot be iterated
Iterable(items) == [iter |-> TRUE, items |-> items]
NotIterable == [iter |-> FALSE, items |-> <<>>]
FlowsValues == {Iterable(q) : q \in SeqsUpTo(Values, MaxFlows)} \cup {NotIterable}

(***************************************************************************)
(* Environment                                                             *)
(***************************************************************************)
DefaultExec == "./calculations/bin/Release/net6.0/FinanceCore"
AltExec == "/opt/engine/FinanceCore"
Paths == {DefaultExec, AltExec}
Unset == ""

\* os.getenv("FSHARP_EXEC_PATH", default)
getenv(value) == IF value = Unset THEN DefaultExec ELSE value

(***************************************************************************)
(* The engine process: what the operating system and the engine do with a  *)
(* command is not decided by this program.                                 *)
(***************************************************************************)
\* texts the engine may write: nothing, zero, a number, a number within
\* whitespace, two digits, two numbers, text that is no number, and the text
\* a floating-point "not a number" is printed as
Stdouts ==
    {<<>>, <<"0">>, <<"7">>, <<" ", "7", " ">>, <<"7", "0">>, <<"7", " ", "7">>,
     <<"x">>, <<"n", "a", "n">>}
Behaviour(canExec, exit, stdout) == [canExec |-> canExec, exit |-> exit, stdout |-> stdout]
\* the process cannot be started; it exits non-zero (with or without a number
\* on stdout); it exits zero having written any text
EngineBehaviours ==
    {Behaviour(FALSE, 0, <<>>)}
    \cup {Behaviour(TRUE, 1, t) : t \in {<<>>, <<"7">>}}
    \cup {Behaviour(TRUE, 0, t) : t \in Stdouts}

\* the characters of a text on stdout, and every text of at most MaxOut of
\* them; with an exit status each and a process that can or cannot start
OutChars == {" ", "\n", "0", "7", "n", "a"}
ExitCodes == {0, 1}
AllBehaviours ==
    {Behaviour(c, x, t) : c \in BOOLEAN, x \in ExitCodes, t \in SeqsUpTo(OutChars, MaxOut)}

IsSpace(c) == c \in {" ", "\n"}
IsDigit(c) == c \in {"0", "7"}
DigitOf(c) == IF c = "7" THEN 7 ELSE 0

RECURSIVE lstrip(_)
lstrip(t) == IF Len(t) > 0 /\ IsSpace(t[1]) THEN lstrip(Tail(t)) ELSE t

RECURSIVE rstrip(_)
rstrip(t) ==
    IF Len(t) > 0 /\ IsSpace(t[Len(t)]) THEN rstrip(SubSeq(t, 1, Len(t) - 1)) ELSE t

\* str.strip()
strip(t) == rstrip(lstrip(t))

RECURSIVE DigitsValue(_)
DigitsValue(t) ==
    IF Len(t) = 0 THEN 0
    ELSE 10 * DigitsValue(SubSeq(t, 1, Len(t) - 1)) + DigitOf(t[Len(t)])

\* float(text): a value, or ValueError.  Whitespace around the text is
\* skipped; the text is a decimal numeral or the word nan, whose value is
\* not a number
NanWord == <<"n", "a", "n">>
float(t) ==
    LET u == strip(t)
    IN  IF Len(u) > 0 /\ \A i \in 1..Len(u) : IsDigit(u[i])
        THEN [ok |-> TRUE, nan |-> FALSE, v |-> DigitsValue(u)]
        ELSE IF u = NanWord THEN [ok |-> TRUE, nan |-> TRUE, v |-> 0]
        ELSE [ok |-> FALSE, nan |-> FALSE, v |-> 0]

(***************************************************************************)
(* financial.py                                                            *)
(***************************************************************************)
Sentinel == 0

DotnetPrefix ==
    <<StrV("dotnet"), StrV("run"), StrV("--project"),
      StrV("./calculations/FinanceCore.fsproj"), StrV("--")>>

\* lines 10-14: the command for this call
EngineCommandCached(exec, exists, runner, args) ==
    IF prevPrefix # <<>> THEN prevPrefix \o args
    ELSE IF ~exists /\ runner THEN DotnetPrefix \o args ELSE <<StrV(exec)>> \o args

EngineCommandNoNot(exec, exists, runner, args) ==
    IF exists /\ runner THEN DotnetPrefix \o args ELSE <<StrV(exec)>> \o args

EngineCommand(exec, exists, runner, args) ==
    IF ~exists /\ runner THEN DotnetPrefix \o args ELSE <<StrV(exec)>> \o args

\* subprocess.run(cmd, capture_output=True, text=True, check=True):
\* "type_error" (an argument that is no string), "spawn_error" (nothing to
\* execute), "exit_error" (CalledProcessError) or "completed"
subprocess_run(cmd, e) ==
    IF \E i \in 1..Len(cmd) : cmd[i].k # "str" THEN "type_error"
    ELSE IF cmd[1] = StrV("dotnet") THEN
        (IF dotnet /\ e.canExec THEN (IF e.exit = 0 THEN "completed" ELSE "exit_error")
         ELSE "spawn_error")
    ELSE IF cmd[1].s \in files /\ e.canExec
         THEN (IF e.exit = 0 THEN "completed" ELSE "exit_error")
         ELSE "spawn_error"

\* what a call came to; nan says that the value returned is not a number
\* (ret is then of no meaning)
Result(cmd, argv, spawns, ok, outcome, ret, nan) ==
    [cmd |-> cmd, argv |-> argv, spawns |-> spawns, ok |-> ok,
     outcome |-> outcome, ret |-> ret, nan |-> nan]

Spawned(ran) == IF ran \in {"completed", "exit_error"} THEN 1 ELSE 0

run_fsharp_cmd_Retry(args, e) ==
    LET exists == FSHARP_EXEC \in files
        cmd == EngineCommand(FSHARP_EXEC, exists, dotnet, args)
        other == IF ~exists /\ dotnet THEN <<StrV(FSHARP_EXEC)>> \o args
                 ELSE DotnetPrefix \o args
        ran == subprocess_run(cmd, e)
        again == subprocess_run(other, e)
        parsed == float(strip(e.stdout))
    IN  IF ran = "completed" /\ parsed.ok
        THEN Result(cmd, args, 1, TRUE, "returned", parsed.v, parsed.nan)
        ELSE IF again = "completed" /\ parsed.ok
        THEN Result(other, args, Spawned(ran) + 1, TRUE, "returned", parsed.v, parsed.nan)
        ELSE Result(cmd, args, Spawned(ran) + Spawned(again), FALSE, "returned",
                    Sentinel, FALSE)

run_fsharp_cmd_NoCatch(args, e) ==
    LET cmd == EngineCommand(FSHARP_EXEC, FSHARP_EXEC \in files, dotnet, args)
        ran == subprocess_run(cmd, e)
        parsed == float(strip(e.stdout))
    IN  IF ran = "completed" /\ parsed.ok
        THEN Result(cmd, args, 1, TRUE, "returned", parsed.v, parsed.nan)
        ELSE IF ran = "exit_error"
        THEN Result(cmd, args, 1, FALSE, "raised", Sentinel, FALSE)
        ELSE Result(cmd, args, Spawned(ran), FALSE, "returned", Sentinel, FALSE)

\* lines 8-21
run_fsharp_cmd(args, e) ==
    LET cmd == EngineCommand(FSHARP_EXEC, FSHARP_EXEC \in files, dotnet, args)
        ran == subprocess_run(cmd, e)
        parsed == float(strip(e.stdout))
    IN  IF ran = "completed" /\ parsed.ok
        THEN Result(cmd, args, 1, TRUE, "returned", parsed.v, parsed.nan)
        ELSE Result(cmd, args, Spawned(ran), FALSE, "returned", Sentinel, FALSE)

\* an exception raised before run_fsharp_cmd is entered
Raised == Result(<<>>, <<>>, 0, FALSE, "raised", Sentinel, FALSE)

DefaultFreq == 2

calculate_bond_Swapped(face, coupon, market, years, freq, e) ==
    run_fsharp_cmd(<<StrV("bond"), str(face), str(market), str(coupon), str(years),
                     str(IF freq = Omitted THEN Num(DefaultFreq) ELSE freq)>>, e)

\* lines 23-24
calculate_bond(face, coupon, market, years, freq, e) ==
    run_fsharp_cmd(<<StrV("bond"), str(face), str(coupon), str(market), str(years),
                     str(IF freq = Omitted THEN Num(DefaultFreq) ELSE freq)>>, e)

\* lines 26-27
calculate_wacc(equity, debt, cost_e, cost_d, tax, e) ==
    run_fsharp_cmd(<<StrV("wacc"), str(equity), str(debt), str(cost_e), str(cost_d),
                     str(tax)>>, e)

\* lines 29-30: kind is not passed through str()
calculate_option(spot, strike, time, rate, vol, kind, e) ==
    run_fsharp_cmd(<<StrV("option"), str(spot), str(strike), str(time), str(rate),
                     str(vol), kind>>, e)

\* lines 32-34: the join iterates flows before run_fsharp_cmd is entered
calculate_npv(rate, flows, e) ==
    IF ~flows.iter THEN Raised
    ELSE run_fsharp_cmd(<<StrV("npv"), str(rate), StrV(JoinComma(flows.items))>>, e)

(***************************************************************************)
(* schemas/calculations.py                                                 *)
(***************************************************************************)
UpperLetters == <<"A", "B", "C", "D", "E", "F", "G", "H", "I", "J", "K", "L", "M", "N", "O", "P", "Q", "R", "S", "T", "U", "V", "W", "X", "Y", "Z">>
LowerLetters == <<"a", "b", "c", "d", "e", "f", "g", "h", "i", "j", "k", "l", "m", "n", "o", "p", "q", "r", "s", "t", "u", "v", "w", "x", "y", "z">>
Letter(c, table) == CHOOSE i \in 1..Len(table) : table[i] = c
InTable(c, table) == \E i \in 1..Len(table) : table[i] = c

\* str.lower() and str.upper(), letter by letter
lower_char(c) == IF InTable(c, UpperLetters) THEN LowerLetters[Letter(c, UpperLetters)] ELSE c
upper_char(c) == IF InTable(c, LowerLetters) THEN UpperLetters[Letter(c, LowerLetters)] ELSE c
lower(w) == [i \in 1..Len(w) |-> lower_char(w[i])]

\* class CalculationType(str, Enum): the members and their values
CalculationType == {"ADDITION", "SUBTRACTION", "MULTIPLICATION", "DIVISION"}
value(member) ==
    CASE member = "ADDITION" -> <<"a", "d", "d", "i", "t", "i", "o", "n">>
      [] member = "SUBTRACTION" -> <<"s", "u", "b", "t", "r", "a", "c", "t", "i", "o", "n">>
      [] member = "MULTIPLICATION" -> <<"m", "u", "l", "t", "i", "p", "l", "i", "c", "a", "t", "i", "o", "n">>
      [] OTHER -> <<"d", "i", "v", "i", "s", "i", "o", "n">>

\* CalculationType(text): the member with that value
EnumOf(w) == CHOOSE m \in CalculationType : value(m) = w

\* what a client may send as "type": a string, something that is no string,
\* or nothing
TStr(w) == [kind |-> "str", chars |-> w]
TInt == [kind |-> "int", chars |-> <<>>]
TNone == [kind |-> "none", chars |-> <<>>]
Missing == [kind |-> "missing", chars |-> <<>>]

TypeWords ==
    {value(m) : m \in CalculationType}
    \cup {<<"m", "o", "d", "u", "l", "o">>, <<"a", "d", "d">>, <<" ", "a", "d", "d", "i", "t", "i", "o", "n">>, <<>>}
WithUpper(w, P) == [i \in 1..Len(w) |-> IF i \in P THEN upper_char(w[i]) ELSE w[i]]
CaseMasks == SUBSET (1..MaxCase) \cup {1..Len(value("MULTIPLICATION"))}
TypeInputs ==
    {TStr(WithUpper(w, P)) : w \in TypeWords, P \in CaseMasks} \cup {TInt, TNone, Missing}

\* what a client may send as "inputs": a list of values, a value that is no
\* list, or nothing
IList(items) == [kind |-> "list", items |-> items]
INotList == [kind |-> "scalar", items |-> <<>>]
IMissing == [kind |-> "missing", items |-> <<>>]
Elements == {Num(n) : n \in (-1)..MaxElem} \cup {StrV("0"), StrV("abc")}
InputsInputs == {IList(q) : q \in SeqsUpTo(Elements, MaxInputs)} \cup {INotList, IMissing}

\* List[float] in lax mode: a number is taken as it is, a string if it reads
\* as a number, nothing else
NumberTexts == (-1)..(MaxElem + 1)
CanCoerce(v) ==
    \/ v.k = "num"
    \/ v.k = "str" /\ \E n \in NumberTexts : ToString(n) = v.s
Coerce(v) ==
    IF v.k = "num" THEN v.n ELSE CHOOSE n \in NumberTexts : ToString(n) = v.s

Error(loc, rule) == [loc |-> loc, rule |-> rule]

validate_type_CaseSensitive(v) ==
    IF v.kind = "missing" THEN [errors |-> <<Error("type", "missing")>>, out |-> <<>>]
    ELSE IF v.kind # "str" \/ v.chars \notin {value(m) : m \in CalculationType}
    THEN [errors |-> <<Error("type", "membership")>>, out |-> <<>>]
    ELSE [errors |-> <<>>, out |-> v.chars]

\* lines 48-52, 60-70: the field "type" (required; validate_type runs before
\* the enum conversion)
validate_type(v) ==
    IF v.kind = "missing" THEN [errors |-> <<Error("type", "missing")>>, out |-> <<>>]
    ELSE IF v.kind # "str" \/ lower(v.chars) \notin {value(m) : m \in CalculationType}
    THEN [errors |-> <<Error("type", "membership")>>, out |-> <<>>]
    ELSE [errors |-> <<>>, out |-> lower(v.chars)]

\* the positions of a list whose element cannot be made a float, in order
RECURSIVE ElementErrors(_, _)
ElementErrors(items, i) ==
    IF i > Len(items) THEN <<>>
    ELSE (IF CanCoerce(items[i]) THEN <<>> ELSE <<Error("inputs", "element")>>)
             \o ElementErrors(items, i + 1)

\* lines 53-58, 72-80: the field "inputs" (required; check_inputs_is_list runs
\* before the conversion to List[float], whose length is checked last)
validate_inputs_field(v, min_items) ==
    IF v.kind = "missing" THEN [errors |-> <<Error("inputs", "missing")>>, out |-> <<>>]
    ELSE IF v.kind # "list" THEN [errors |-> <<Error("inputs", "shape")>>, out |-> <<>>]
    ELSE IF ElementErrors(v.items, 1) # <<>>
    THEN [errors |-> ElementErrors(v.items, 1), out |-> <<>>]
    ELSE IF Len(v.items) < min_items
    THEN [errors |-> <<Error("inputs", "arity")>>, out |-> <<>>]
    ELSE [errors |-> <<>>, out |-> [i \in 1..Len(v.items) |-> Coerce(v.items[i])]]

validate_inputs_AnyZero(type, inputs, min_numbers) ==
    IF Len(inputs) < min_numbers THEN <<Error("model", "arity")>>
    ELSE IF type = "DIVISION" /\ \E i \in 1..Len(inputs) : inputs[i] = 0
    THEN <<Error("model", "semantic")>>
    ELSE <<>>

validate_inputs_FirstDivisorOnly(type, inputs, min_numbers) ==
    IF Len(inputs) < min_numbers THEN <<Error("model", "arity")>>
    ELSE IF type = "DIVISION" /\ inputs[2] = 0
    THEN <<Error("model", "semantic")>>
    ELSE <<>>

\* lines 82-96: the model validator, run on the converted fields
validate_inputs(type, inputs, min_numbers) ==
    IF Len(inputs) < min_numbers THEN <<Error("model", "arity")>>
    ELSE IF type = "DIVISION" /\ \E i \in 2..Len(inputs) : inputs[i] = 0
    THEN <<Error("model", "semantic")>>
    ELSE <<>>

NoModel == [type |-> "", inputs |-> <<>>]
Validation(schema, type, inputs, errors, model) ==
    [done |-> TRUE, schema |-> schema, type |-> type, inputs |-> inputs,
     errors |-> errors, accepted |-> errors = <<>>, model |-> model]

\* Model construction: every field is validated and the failures of all of
\* them are reported together; the model validator runs only on a model whose
\* fields all passed.
BaseValidationFailFast(type, inputs, min_items, min_numbers) ==
    LET t == validate_type(type)
        i == validate_inputs_field(inputs, min_items)
        m == validate_inputs(EnumOf(t.out), i.out, min_numbers)
    IN  IF t.errors # <<>>
        THEN Validation("CalculationBase", type, inputs, t.errors, NoModel)
        ELSE IF i.errors # <<>>
        THEN Validation("CalculationBase", type, inputs, <<i.errors[1]>>, NoModel)
        ELSE Validation("CalculationBase", type, inputs, m,
                        IF m = <<>> THEN [type |-> EnumOf(t.out), inputs |-> i.out]
                        ELSE NoModel)

BaseValidation(type, inputs, min_items, min_numbers) ==
    LET t == validate_type(type)
        i == validate_inputs_field(inputs, min_items)
        m == validate_inputs(EnumOf(t.out), i.out, min_numbers)
    IN  IF t.errors \o i.errors # <<>>
        THEN Validation("CalculationBase", type, inputs, t.errors \o i.errors, NoModel)
        ELSE Validation("CalculationBase", type, inputs, m,
                        IF m = <<>> THEN [type |-> EnumOf(t.out), inputs |-> i.out]
                        ELSE NoModel)

min_items == 2
MinNumbers == 2

CalculationBase_OneInput(type, inputs) == BaseValidation(type, inputs, 1, 1)

\* lines 41-106: CalculationBase(type=..., inputs=...)
CalculationBase(type, inputs) == BaseValidation(type, inputs, min_items, MinNumbers)

\* lines 134-138: the field "type" of an update (optional; nothing runs before
\* the enum conversion, which takes a member's value as it is written).
\* The empty word stands for None.
update_type(v) ==
    IF v.kind \in {"missing", "none"} THEN [errors |-> <<>>, out |-> <<>>]
    ELSE IF v.kind # "str" \/ v.chars \notin {value(m) : m \in CalculationType}
    THEN [errors |-> <<Error("type", "membership")>>, out |-> <<>>]
    ELSE [errors |-> <<>>, out |-> v.chars]

\* lines 140-145: the field "inputs" of an update (optional, min_items=2).
\* The empty list stands for None.
update_inputs(v, items) ==
    IF v.kind = "missing" THEN [errors |-> <<>>, out |-> <<>>]
    ELSE validate_inputs_field(v, items)

\* lines 147-154: the model validator of an update
update_validate_inputs(present, inputs, min_numbers) ==
    IF present /\ Len(inputs) < min_numbers THEN <<Error("model", "arity")>>
    ELSE <<>>

UpdateModel(t, i) == [type |-> IF t = <<>> THEN "" ELSE EnumOf(t), inputs |-> i]
UpdateMinNumbers == 2

CalculationUpdate_DivisionRule(type, inputs) ==
    LET t == update_type(type)
        i == update_inputs(inputs, min_items)
        u == UpdateModel(t.out, i.out)
        m == update_validate_inputs(inputs.kind # "missing", i.out, UpdateMinNumbers)
                 \o (IF inputs.kind # "missing"
                     THEN validate_inputs(u.type, i.out, MinNumbers) ELSE <<>>)
    IN  IF t.errors \o i.errors # <<>>
        THEN Validation("CalculationUpdate", type, inputs, t.errors \o i.errors, NoModel)
        ELSE Validation("CalculationUpdate", type, inputs, m,
                        IF m = <<>> THEN u ELSE NoModel)

\* lines 129-164: CalculationUpdate(type=..., inputs=...)
CalculationUpdate(type, inputs) ==
    LET t == update_type(type)
        i == update_inputs(inputs, min_items)
        m == update_validate_inputs(inputs.kind # "missing", i.out, UpdateMinNumbers)
    IN  IF t.errors \o i.errors # <<>>
        THEN Validation("CalculationUpdate", type, inputs, t.errors \o i.errors, NoModel)
        ELSE Validation("CalculationUpdate", type, inputs, m,
                        IF m = <<>> THEN UpdateModel(t.out, i.out) ELSE NoModel)

\* lines 130-133: a partial update replaces the fields it carries
ApplyUpdate(record, update) ==
    [type |-> IF update.type = "" THEN record.type ELSE update.type,
     inputs |-> IF update.inputs = <<>> THEN record.inputs ELSE update.inputs]

(***************************************************************************)
(* The arithmetic evaluator (app.operations): exact arithmetic on          *)
(* fractions stands for the floating-point operations.                     *)
(***************************************************************************)
Frac(n, d) == [num |-> n, den |-> d]
Whole(n) == Frac(n, 1)
Value(v) == [ok |-> TRUE, err |-> "", v |-> v]
Failure(msg) == [ok |-> FALSE, err |-> msg, v |-> Whole(0)]
DivideByZeroMessage == "Cannot divide by zero!"

add(a, b) == Value(Frac(a.num * b.den + b.num * a.den, a.den * b.den))
subtract(a, b) == Value(Frac(a.num * b.den - b.num * a.den, a.den * b.den))
multiply(a, b) == Value(Frac(a.num * b.num, a.den * b.den))
divide(a, b) ==
    IF b.num = 0 THEN Failure(DivideByZeroMessage)
    ELSE Value(Frac(a.num * b.den, a.den * b.num))

Operation(type, a, b) ==
    CASE type = "ADDITION" -> add(a, b)
      [] type = "SUBTRACTION" -> subtract(a, b)
      [] type = "MULTIPLICATION" -> multiply(a, b)
      [] type = "DIVISION" -> divide(a, b)

\* the operation folded from the left over the inputs, in order
RECURSIVE Fold(_, _, _)
Fold(type, acc, rest) ==
    IF rest = <<>> THEN Value(acc)
    ELSE LET r == Operation(type, acc, Whole(Head(rest)))
         IN  IF r.ok THEN Fold(type, r.v, Tail(rest)) ELSE r

Evaluate(model) == Fold(model.type, Whole(Head(model.inputs)), Tail(model.inputs))

Evaluation(fn, args, r) ==
    [fn |-> fn, args |-> args, ok |-> r.ok, err |-> r.err, v |-> r.v]
NoEvaluation == Evaluation("none", <<>>, Failure(""))

(***************************************************************************)
(* State                                                                   *)
(***************************************************************************)
NoFlows == Iterable(<<>>)

Call(fn, args, flows, r) ==
    [fn |-> fn, args |-> args, flows |-> flows,
     cmd |-> r.cmd, argv |-> r.argv, spawns |-> r.spawns, ok |-> r.ok,
     outcome |-> r.outcome, ret |-> r.ret, nan |-> r.nan]

NoCall ==
    [fn |-> "none", args |-> <<>>, flows |-> NoFlows,
     cmd |-> <<>>, argv |-> <<>>, spawns |-> 0, ok |-> FALSE,
     outcome |-> "none", ret |-> 0, nan |-> FALSE]

\* the process a call started, if it started one
NoProcess == [ran |-> FALSE, exit |-> 0, stdout |-> <<>>]
Process(r, e) ==
    IF r.spawns > 0 THEN [ran |-> TRUE, exit |-> e.exit, stdout |-> e.stdout]
    ELSE NoProcess

NoValidation ==
    [done |-> FALSE, schema |-> "", type |-> Missing, inputs |-> IMissing,
     errors |-> <<>>, accepted |-> FALSE, model |-> NoModel]

\* the state once financial.py has been imported
Init ==
    /\ envPath \in {Unset, AltExec}
    /\ FSHARP_EXEC = getenv(envPath)
    /\ files \in SUBSET Paths
    /\ dotnet \in BOOLEAN
    /\ last = NoCall
    /\ prevPrefix = <<>>
    /\ validated = NoValidation
    /\ proc = NoProcess
    /\ stored = NoModel
    /\ evaluated = NoEvaluation

CallBond ==
    /\ last = NoCall
    /\ \E face, coupon, market, years \in Values, freq \in Values \cup {Omitted},
       e \in EngineBehaviours :
        LET r == calculate_bond(face, coupon, market, years, freq, e) IN
        /\ last' = Call("bond", <<face, coupon, market, years, freq>>, NoFlows, r)
        /\ proc' = Process(r, e)
        /\ UNCHANGED <<envPath, FSHARP_EXEC, files, dotnet, prevPrefix, validated, stored,
                       evaluated>>

CallWacc ==
    /\ last = NoCall
    /\ \E equity, debt, cost_e, cost_d, tax \in Values, e \in EngineBehaviours :
        LET r == calculate_wacc(equity, debt, cost_e, cost_d, tax, e) IN
        /\ last' = Call("wacc", <<equity, debt, cost_e, cost_d, tax>>, NoFlows, r)
        /\ proc' = Process(r, e)
        /\ UNCHANGED <<envPath, FSHARP_EXEC, files, dotnet, prevPrefix, validated, stored,
                       evaluated>>

CallOption ==
    /\ last = NoCall
    /\ \E spot, strike, time, rate, vol \in Values, kind \in Kinds,
       e \in EngineBehaviours :
        LET r == calculate_option(spot, strike, time, rate, vol, kind, e) IN
        /\ last' = Call("option", <<spot, strike, time, rate, vol, kind>>, NoFlows, r)
        /\ proc' = Process(r, e)
        /\ UNCHANGED <<envPath, FSHARP_EXEC, files, dotnet, prevPrefix, validated, stored,
                       evaluated>>

CallNpv ==
    /\ last = NoCall
    /\ \E rate \in Values, flows \in FlowsValues, e \in EngineBehaviours :
        LET r == calculate_npv(rate, flows, e) IN
        /\ last' = Call("npv", <<rate>>, flows, r)
        /\ proc' = Process(r, e)
        /\ UNCHANGED <<envPath, FSHARP_EXEC, files, dotnet, prevPrefix, validated, stored,
                       evaluated>>

\* the part of a call's command that precedes the argument vector
Prefix(c) == SubSeq(c.cmd, 1, Len(c.cmd) - Len(c.argv))

\* the caller takes the result; nothing of the call is kept
Return ==
    /\ last # NoCall
    /\ prevPrefix' = IF Len(last.cmd) > 0 THEN Prefix(last) ELSE prevPrefix
    /\ last' = NoCall
    /\ proc' = NoProcess
    /\ UNCHANGED <<envPath, FSHARP_EXEC, files, dotnet, validated, stored, evaluated>>

\* The world around the process changes between calls.  A call is one step:
\* what exists when it looks is what exists when it spawns.
BinaryAppears ==
    /\ last = NoCall
    /\ \E p \in Paths \ files :
        /\ files' = files \cup {p}
        /\ UNCHANGED <<envPath, FSHARP_EXEC, dotnet, last, prevPrefix, validated,
                     proc, stored, evaluated>>

BinaryDisappears ==
    /\ last = NoCall
    /\ \E p \in files :
        /\ files' = files \ {p}
        /\ UNCHANGED <<envPath, FSHARP_EXEC, dotnet, last, prevPrefix, validated,
                     proc, stored, evaluated>>

RunnerChanges ==
    /\ last = NoCall
    /\ dotnet' = ~dotnet
    /\ UNCHANGED <<envPath, FSHARP_EXEC, files, last, prevPrefix, validated,
                     proc, stored, evaluated>>

\* os.environ["FSHARP_EXEC_PATH"] is set or cleared after the import
SetEnvPath ==
    /\ last = NoCall
    /\ \E p \in {Unset, AltExec} \ {envPath} :
        /\ envPath' = p
        /\ UNCHANGED <<FSHARP_EXEC, files, dotnet, last, prevPrefix, validated,
                     proc, stored, evaluated>>

Next ==
    \/ CallBond
    \/ CallWacc
    \/ CallOption
    \/ CallNpv
    \/ Return
    \/ BinaryAppears
    \/ BinaryDisappears
    \/ RunnerChanges
    \/ SetEnvPath

Spec == Init /\ [][Next]_vars

(***************************************************************************)
(* The request schemas on their own: requests are validated one at a time  *)
(* and no engine call is made.                                             *)
(***************************************************************************)
InitValidator ==
    /\ envPath = Unset
    /\ FSHARP_EXEC = getenv(envPath)
    /\ files = {}
    /\ dotnet = FALSE
    /\ last = NoCall
    /\ prevPrefix = <<>>
    /\ validated = NoValidation
    /\ proc = NoProcess
    /\ stored = NoModel
    /\ evaluated = NoEvaluation

\* CalculationBase(**payload)
Create ==
    /\ validated = NoValidation
    /\ \E type \in TypeInputs, inputs \in InputsInputs :
        validated' = CalculationBase(type, inputs)
    /\ UNCHANGED <<envPath, FSHARP_EXEC, files, dotnet, last, prevPrefix, proc, stored,
                 evaluated>>

\* the caller is done with the model or with the ValidationError
Discard ==
    /\ validated # NoValidation
    /\ validated' = NoValidation
    /\ UNCHANGED <<envPath, FSHARP_EXEC, files, dotnet, last, prevPrefix, proc, stored,
                 evaluated>>

NextValidator ==
    \/ Create
    \/ Discard

ValidatorSpec == InitValidator /\ [][NextValidator]_vars

(***************************************************************************)
(* The invoker against every short text the engine can write: the          *)
(* environment is settled at the start, each call meets one behaviour.     *)
(***************************************************************************)
InitInvoker ==
    /\ envPath = Unset
    /\ FSHARP_EXEC = getenv(envPath)
    /\ files \in SUBSET {DefaultExec}
    /\ dotnet \in BOOLEAN
    /\ last = NoCall
    /\ prevPrefix = <<>>
    /\ proc = NoProcess
    /\ validated = NoValidation
    /\ stored = NoModel
    /\ evaluated = NoEvaluation

Invoke ==
    \E e \in AllBehaviours, a \in {Num(n) : n \in 1..MaxNum} :
        /\ last = NoCall
        /\ LET r == calculate_wacc(a, a, a, a, a, e) IN
           /\ last' = Call("wacc", <<a, a, a, a, a>>, NoFlows, r)
           /\ proc' = Process(r, e)
        /\ UNCHANGED <<envPath, FSHARP_EXEC, files, dotnet, prevPrefix, validated, stored,
                       evaluated>>

NextInvoker ==
    \/ Invoke
    \/ Return

InvokerSpec == InitInvoker /\ [][NextInvoker]_vars

(***************************************************************************)
(* Arithmetic requests: a calculation is created from a validated request  *)
(* and evaluated, and is later updated from a validated update.            *)
(***************************************************************************)
ServiceTypes ==
    {Missing, TNone,
     TStr(value("DIVISION")), TStr(value("ADDITION")),
     TStr(WithUpper(value("DIVISION"), {1})), TStr(<<"m", "o", "d", "u", "l", "o">>)}
ServiceElements == {Num(0), Num(2), StrV("abc")}
ServiceInputs ==
    {IList(q) : q \in SeqsUpTo(ServiceElements, MaxInputs)} \cup {INotList, IMissing}
Operands == (-1)..MaxElem

InitService ==
    /\ envPath = Unset
    /\ FSHARP_EXEC = getenv(envPath)
    /\ files = {}
    /\ dotnet = FALSE
    /\ last = NoCall
    /\ prevPrefix = <<>>
    /\ proc = NoProcess
    /\ validated = NoValidation
    /\ stored = NoModel
    /\ evaluated = NoEvaluation

Idle == validated = NoValidation /\ evaluated = NoEvaluation

\* divide(a, b)
CallDivide ==
    /\ Idle
    /\ \E a \in Operands, b \in Operands :
        evaluated' = Evaluation("divide", <<a, b>>, divide(Whole(a), Whole(b)))
    /\ UNCHANGED <<envPath, FSHARP_EXEC, files, dotnet, last, prevPrefix, proc, validated,
                   stored>>

\* a request is validated by CalculationBase; an accepted one is evaluated
\* and kept
CreateCalculation ==
    /\ Idle
    /\ \E type \in ServiceTypes, inputs \in ServiceInputs :
        LET v == CalculationBase(type, inputs) IN
        /\ validated' = v
        /\ IF v.accepted
           THEN /\ evaluated' = Evaluation("evaluate", v.model.inputs, Evaluate(v.model))
                /\ stored' = v.model
           ELSE UNCHANGED <<evaluated, stored>>
    /\ UNCHANGED <<envPath, FSHARP_EXEC, files, dotnet, last, prevPrefix, proc>>

\* an update is validated by CalculationUpdate; an accepted one replaces the
\* fields it carries in the calculation kept
UpdateCalculation ==
    /\ Idle
    /\ stored # NoModel
    /\ \E type \in ServiceTypes, inputs \in ServiceInputs :
        LET v == CalculationUpdate(type, inputs) IN
        /\ validated' = v
        /\ stored' = IF v.accepted THEN ApplyUpdate(stored, v.model) ELSE stored
    /\ UNCHANGED <<envPath, FSHARP_EXEC, files, dotnet, last, prevPrefix, proc, evaluated>>

\* the response has been sent
Done ==
    /\ ~Idle
    /\ validated' = NoValidation
    /\ evaluated' = NoEvaluation
    /\ UNCHANGED <<envPath, FSHARP_EXEC, files, dotnet, last, prevPrefix, proc, stored>>

NextService ==
    \/ CallDivide
    \/ CreateCalculation
    \/ UpdateCalculation
    \/ Done

ServiceSpec == InitService /\ [][NextService]_vars

(***************************************************************************)
(* Claims about the engine boundary (checked under Spec)                   *)
(***************************************************************************)
Called == last # NoCall
Located == Called /\ Len(last.cmd) > 0      \* run_fsharp_cmd was entered
BinaryExists == FSHARP_EXEC \in files
BinaryPrefix == <<StrV(FSHARP_EXEC)>>

C2_FailureDistinguishable ==
    (Called /\ last.outcome = "returned" /\ last.ret = Sentinel) => ~last.ok

\* C3: the locator's decision table.  Binary present: the prefix is the binary
\* path, whatever the runner.  Binary absent, runner found: the prefix is the
\* source-run invocation of the engine project.  Both absent: the prefix is
\* the binary path anyway.  In all four cases the locator yields a command:
\* every call that can build its argument vector gets one.
C3_LocatorDecisionTable ==
    /\ (Called /\ last.flows.iter) => Located
    /\ Located =>
        /\ Len(last.cmd) > Len(last.argv)
        /\ BinaryExists => Prefix(last) = BinaryPrefix
        /\ (~BinaryExists /\ dotnet) => Prefix(last) = DotnetPrefix
        /\ (~BinaryExists /\ ~dotnet) => Prefix(last) = BinaryPrefix

C3_Witness == Located /\ BinaryExists /\ dotnet /\ Prefix(last) = BinaryPrefix

\* C4 as stated: each call uses the strategy of the environment at the time of
\* the call, the configured binary path (FSHARP_EXEC_PATH) included.
C4_StrategyFollowsEnvironment ==
    Located =>
        Prefix(last) = IF getenv(envPath) \notin files /\ dotnet
                       THEN DotnetPrefix ELSE <<StrV(getenv(envPath))>>

\* C4 amended: the strategy is recomputed on every call and never cached: each
\* call's prefix is the one that the presence of the binary and of the runner
\* at the time of that call determine, whatever an earlier call used.  The
\* path itself is the one read from FSHARP_EXEC_PATH when the module was
\* imported; a later change of the variable is not seen.
C4_StrategyRecomputedPerCall ==
    [][(last = NoCall /\ Len(last'.cmd) > 0) =>
          /\ Prefix(last') = IF FSHARP_EXEC \in files' THEN <<StrV(FSHARP_EXEC')>>
                             ELSE IF dotnet' THEN DotnetPrefix
                             ELSE <<StrV(FSHARP_EXEC')>>
          /\ FSHARP_EXEC' = FSHARP_EXEC]_vars

\* a call that uses another strategy than the call before it
C4_Witness == Located /\ prevPrefix # <<>> /\ Prefix(last) # prevPrefix

\* a value that float() accepts
Coercible(v) == v.k = "num"
\* the numeric fields of a call: all of its arguments but the option kind
NumericFields(c) ==
    {c.args[i] : i \in 1..(IF c.fn = "option" THEN 5 ELSE Len(c.args))}
    \cup {c.flows.items[i] : i \in 1..Len(c.flows.items)}

\* C5 as stated: the engine is not spawned unless every numeric field of the
\* request is present and coercible to floating-point.
C5_NoSpawnWithoutValidation ==
    (Called /\ last.spawns > 0) =>
        \A v \in NumericFields(last) : v = Omitted \/ Coercible(v)

\* the cash flows as text, built from the last one backwards
RECURSIVE CommaSeparated(_)
CommaSeparated(items) ==
    IF Len(items) = 0 THEN ""
    ELSE IF Len(items) = 1 THEN str(items[1]).s
    ELSE CommaSeparated(SubSeq(items, 1, Len(items) - 1))
             \o "," \o str(items[Len(items)]).s

ExpectedVector(c) ==
    CASE c.fn = "bond" ->
            <<StrV("bond"), str(c.args[1]), str(c.args[2]), str(c.args[3]),
              str(c.args[4]), IF c.args[5] = Omitted THEN StrV("2") ELSE str(c.args[5])>>
      [] c.fn = "wacc" ->
            <<StrV("wacc"), str(c.args[1]), str(c.args[2]), str(c.args[3]),
              str(c.args[4]), str(c.args[5])>>
      [] c.fn = "option" ->
            <<StrV("option"), str(c.args[1]), str(c.args[2]), str(c.args[3]),
              str(c.args[4]), str(c.args[5]), c.args[6]>>
      [] OTHER ->
            <<StrV("npv"), str(c.args[1]), StrV(CommaSeparated(c.flows.items))>>

\* C10: the argument vector is positional and fixed per category, and it is
\* the tail of the command under both strategies.
C10_ArgumentVector ==
    Located =>
        /\ Prefix(last) \in {BinaryPrefix, DotnetPrefix}
        /\ last.cmd = Prefix(last) \o ExpectedVector(last)

C10_Witness ==
    /\ Located /\ last.fn = "bond" /\ last.args[5] = Omitted
    /\ last.args[2] # last.args[3]
    /\ Prefix(last) = DotnetPrefix
    /\ last.cmd[Len(last.cmd)] = StrV("2")

(***************************************************************************)
(* Claims about the request validator (checked under ValidatorSpec)        *)
(***************************************************************************)
Validated == validated.done
ErrorsAt(loc) == SelectSeq(validated.errors, LAMBDA e : e.loc = loc)
Rules == {validated.errors[i].rule : i \in 1..Len(validated.errors)}

\* two letters that differ at most in case
SameLetter(a, b) ==
    \/ a = b
    \/ \E i \in 1..Len(UpperLetters) :
           {a, b} = {UpperLetters[i], LowerLetters[i]}
EqualIgnoringCase(u, w) ==
    Len(u) = Len(w) /\ \A i \in 1..Len(u) : SameLetter(u[i], w[i])
Recognized(v) ==
    v.kind = "str" /\ \E m \in CalculationType : EqualIgnoringCase(v.chars, value(m))

\* C6: a type value is accepted iff it is a string equal, ignoring case, to the
\* value of a member of CalculationType; an accepted request stores that
\* member; every other value is rejected with a validation error.
C6_TypeAcceptedIffRecognized ==
    Validated =>
        /\ (ErrorsAt("type") = <<>>) <=> Recognized(validated.type)
        /\ ~Recognized(validated.type) => ~validated.accepted
        /\ validated.accepted =>
               /\ validated.model.type \in CalculationType
               /\ EqualIgnoringCase(validated.type.chars, value(validated.model.type))

C6_Witness ==
    /\ Validated /\ validated.accepted
    /\ validated.type = TStr(WithUpper(value("ADDITION"), 1..Len(value("ADDITION"))))
    /\ validated.model.type = "ADDITION"

\* C7: a request whose inputs list has fewer than 2 elements (the empty list
\* included) is rejected, whatever its type.
C7_FewerThanTwoRejected ==
    (Validated /\ validated.inputs.kind = "list" /\ Len(validated.inputs.items) < 2)
        => ~validated.accepted

C7_Witness ==
    /\ Validated /\ ~validated.accepted
    /\ validated.type = TStr(value("ADDITION"))
    /\ validated.inputs = IList(<<Num(1)>>)
    /\ validated.errors = <<Error("inputs", "arity")>>

\* what a request holds, read off the payload itself
WellFormedInputs(v) ==
    v.kind = "list" /\ Len(v.items) >= 2 /\ \A i \in 1..Len(v.items) : CanCoerce(v.items[i])
ZeroAfterFirst(v) ==
    v.kind = "list" /\ \E i \in 2..Len(v.items) :
        CanCoerce(v.items[i]) /\ Coerce(v.items[i]) = 0
IsDivision(v) == v.kind = "str" /\ EqualIgnoringCase(v.chars, value("DIVISION"))

\* C8: among requests with a recognized type and an inputs list of at least
\* two numbers, a request is rejected iff its type is division and some input
\* after the first is 0; a zero numerator is accepted, and so are zeros
\* anywhere for the other three types.  A division request with a zero after
\* the first input is rejected whatever else it holds.
C8_DivisionByZeroRule ==
    Validated =>
        /\ (Recognized(validated.type) /\ WellFormedInputs(validated.inputs)) =>
               (~validated.accepted <=>
                    (IsDivision(validated.type) /\ ZeroAfterFirst(validated.inputs)))
        /\ (IsDivision(validated.type) /\ ZeroAfterFirst(validated.inputs)) =>
               ~validated.accepted

C8_Witness ==
    /\ Validated /\ validated.accepted
    /\ validated.model.type = "DIVISION"
    /\ validated.model.inputs = <<0, 1>>

\* the rules a payload violates, read off the payload itself
ViolatesMembership == ~Recognized(validated.type)
ViolatesShape ==
    validated.inputs.kind # "list"
    \/ \E i \in 1..Len(validated.inputs.items) : ~CanCoerce(validated.inputs.items[i])
ViolatesArity == validated.inputs.kind = "list" /\ Len(validated.inputs.items) < 2
EarliestRule ==
    IF ViolatesMembership THEN {"membership", "missing"}
    ELSE IF ViolatesShape THEN {"shape", "element", "missing"}
    ELSE IF ViolatesArity THEN {"arity"}
    ELSE {"semantic"}

\* C9 as stated: the rules are evaluated in the order membership, shape,
\* arity, semantic and the first failure wins: a rejected request reports
\* exactly one failure, that of the earliest rule it violates.
C9_FirstFailureWins ==
    (Validated /\ ~validated.accepted) =>
        /\ Len(validated.errors) = 1
        /\ validated.errors[1].rule \in EarliestRule

\* C9 amended: failures are reported per field, not first-failure-wins across
\* the request.  The membership rule of type and the rules of inputs are
\* evaluated independently and the failures of both fields are reported
\* together, type first.  Within inputs the order is: must be a list, then
\* every element must be a number (one failure per element that is not), then
\* at least 2 elements; a later stage is evaluated only when the earlier ones
\* pass.  Division by zero is evaluated only when no field failed and is then
\* the only failure reported.
C9_FailuresPerField ==
    Validated =>
        /\ validated.errors = ErrorsAt("type") \o ErrorsAt("inputs") \o ErrorsAt("model")
        /\ ErrorsAt("type") # <<>> <=> ViolatesMembership
        /\ Len(ErrorsAt("type")) <= 1
        /\ ErrorsAt("inputs") # <<>> <=> (ViolatesShape \/ ViolatesArity)
        /\ validated.inputs.kind # "list" => Len(ErrorsAt("inputs")) = 1
        /\ validated.inputs.kind = "list" =>
               /\ ViolatesShape =>
                      /\ Rules \cap {"arity", "shape"} = {}
                      /\ Len(ErrorsAt("inputs")) =
                             Cardinality({i \in 1..Len(validated.inputs.items) :
                                              ~CanCoerce(validated.inputs.items[i])})
               /\ ~ViolatesShape => Len(ErrorsAt("inputs")) <= 1
        /\ ErrorsAt("model") # <<>> =>
               /\ validated.errors = <<Error("model", "semantic")>>
               /\ ~ViolatesMembership /\ ~ViolatesShape /\ ~ViolatesArity

\* a request that violates membership and arity reports both
C9_Witness ==
    /\ Validated
    /\ validated.type = TStr(<<"m", "o", "d", "u", "l", "o">>)
    /\ validated.inputs = IList(<<Num(1)>>)
    /\ validated.errors = <<Error("type", "membership"), Error("inputs", "arity")>>

(***************************************************************************)
(* The execution contract                                                  *)
(***************************************************************************)
\* the whitespace-separated tokens of a text
RECURSIVE Tokens(_, _)
Tokens(t, cur) ==
    IF Len(t) = 0 THEN (IF cur = <<>> THEN <<>> ELSE <<cur>>)
    ELSE IF Head(t) \in {" ", "\n"}
         THEN (IF cur = <<>> THEN <<>> ELSE <<cur>>) \o Tokens(Tail(t), <<>>)
         ELSE Tokens(Tail(t), Append(cur, Head(t)))

DecimalDigits == {"0", "7"}
IsNumeral(tok) == Len(tok) > 0 /\ \A i \in 1..Len(tok) : tok[i] \in DecimalDigits

RECURSIVE NumeralValue(_, _)
NumeralValue(tok, acc) ==
    IF Len(tok) = 0 THEN acc
    ELSE NumeralValue(Tail(tok), 10 * acc + (IF Head(tok) = "7" THEN 7 ELSE 0))

OneNumericToken(t) == Len(Tokens(t, <<>>)) = 1 /\ IsNumeral(Tokens(t, <<>>)[1])

EngineSucceeded == proc.ran /\ proc.exit = 0 /\ OneNumericToken(proc.stdout)

\* C11: a call returns the engine's value if and only if the engine process
\* exited with status zero and wrote exactly one numeric token, optionally
\* within whitespace; in every other case the call returns the sentinel.
C11_ValueIffZeroExitAndOneNumber ==
    Called =>
        IF EngineSucceeded
        THEN /\ last.ok /\ ~last.nan
             /\ last.ret = NumeralValue(Tokens(proc.stdout, <<>>)[1], 0)
        ELSE ~last.ok /\ ~last.nan /\ last.outcome = "returned" /\ last.ret = Sentinel

\* what the code does: the value is float() of stdout whenever the process
\* exited with status zero and float() accepted the text, the word nan included
ValueIffZeroExitAndFloatAccepts ==
    Called =>
        IF proc.ran /\ proc.exit = 0
           /\ (OneNumericToken(proc.stdout) \/ Tokens(proc.stdout, <<>>) = <<NanWord>>)
        THEN last.ok /\ (last.nan <=> ~OneNumericToken(proc.stdout))
        ELSE ~last.ok /\ last.outcome = "returned" /\ last.ret = Sentinel

\* C12: a call starts the engine process at most once; a call that failed
\* under the strategy the locator chose made no attempt under the other one.
C12_AtMostOneSpawn ==
    Called =>
        /\ last.spawns <= 1
        /\ (last.spawns = 1) <=> proc.ran
        /\ Located =>
              last.cmd = EngineCommand(FSHARP_EXEC, BinaryExists, dotnet, last.argv)

\* the binary was run and failed while the runner was there to be tried
C12_Witness ==
    /\ Located /\ ~last.ok /\ last.spawns = 1 /\ proc.ran
    /\ BinaryExists /\ dotnet /\ Prefix(last) = BinaryPrefix

(***************************************************************************)
(* The evaluator and the validator on division                             *)
(***************************************************************************)
Divided == evaluated.fn = "divide"
Evaluated == evaluated.fn = "evaluate"
DivisionAccepted ==
    /\ Validated /\ validated.schema = "CalculationBase" /\ validated.accepted
    /\ validated.model.type = "DIVISION"

\* C13: divide(a, b) fails, with the message "Cannot divide by zero!", exactly
\* when b is 0, whatever a is; and the evaluation of a division request that
\* CalculationBase accepted never fails from a division by zero.
C13_AcceptedDivisionNeverDividesByZero ==
    /\ Divided =>
          /\ (evaluated.args[2] = 0) <=> ~evaluated.ok
          /\ ~evaluated.ok => evaluated.err = "Cannot divide by zero!"
    /\ (DivisionAccepted /\ Evaluated) =>
          evaluated.ok /\ evaluated.args = validated.model.inputs

\* an accepted division over three inputs with a zero numerator was
\* evaluated, and divide(a, 0) was called and failed
C13_Witness ==
    /\ DivisionAccepted /\ Evaluated /\ evaluated.ok
    /\ Len(evaluated.args) = 3 /\ evaluated.args[1] = 0

C13_WitnessDivideByZero ==
    Divided /\ evaluated.args[2] = 0 /\ evaluated.args[1] # 0 /\ ~evaluated.ok

(***************************************************************************)
(* Updates                                                                 *)
(***************************************************************************)
Updated == Validated /\ validated.schema = "CalculationUpdate"
Created == Validated /\ validated.schema = "CalculationBase"
TypeAbsentOrMember(v) ==
    \/ v.kind \in {"missing", "none"}
    \/ v.kind = "str" /\ \E m \in CalculationType : v.chars = value(m)
InputsAbsentOrNumbers(v) ==
    \/ v.kind = "missing"
    \/ v.kind = "list" /\ \A i \in 1..Len(v.items) : CanCoerce(v.items[i])
ZeroDivisor(record) ==
    record.type = "DIVISION" /\ \E i \in 2..Len(record.inputs) : record.inputs[i] = 0

\* C14: an update may leave out type, inputs or both; inputs that are given
\* must have at least 2 elements; no other rule is applied to an update whose
\* type is a member and whose inputs are numbers, so a division update with a
\* zero after the first input is accepted.  A calculation kept after a create
\* has no zero divisor; after an accepted update it may have one.
C14_UpdateEnforcesOnlyArity ==
    /\ Updated =>
          /\ (TypeAbsentOrMember(validated.type) /\ InputsAbsentOrNumbers(validated.inputs))
                => (validated.accepted <=>
                      (validated.inputs.kind = "missing" \/ Len(validated.inputs.items) >= 2))
          /\ (validated.inputs.kind = "list" /\ Len(validated.inputs.items) < 2)
                => ~validated.accepted
          /\ validated.accepted =>
                /\ validated.type = Missing => validated.model.type = ""
                /\ validated.inputs = IMissing => validated.model.inputs = <<>>
    /\ (Created /\ validated.accepted) => (stored = validated.model /\ ~ZeroDivisor(stored))

\* a division update with inputs [2, 0] was accepted and the calculation kept
\* is now a division by zero
C14_Witness ==
    /\ Updated /\ validated.accepted
    /\ validated.type = TStr(value("DIVISION"))
    /\ validated.inputs = IList(<<Num(2), Num(0)>>)
    /\ ZeroDivisor(stored)

====
